---- MODULE Spec2Model ----
(***************************************************************************)
(* Model of ConduitIO/gh-tagger: gh-tag-fetcher (src/gh-tag-fetcher.go     *)
(* lines 1-259), gh-tag-creator (src/gh-tag-creator.go) and the            *)
(* interactive tagger (src/gh-tag-fetcher.go lines 261-525).               *)
(*                                                                         *)
(* Strings are sequences of one-character strings, so that splitting,      *)
(* prefix trimming, parsing and formatting are computed, not assumed.      *)
(***************************************************************************)
EXTENDS Integers, Sequences, FiniteSets, TLC

VARIABLES
    pc,        \* position of the running program
    exit,      \* "running", "0" (normal end), "1" (log.Fatalf / os.Exit(1)), "panic"
    env,       \* [token: BOOLEAN]  whether GITHUB_TOKEN is set
    flags,     \* command line: [nargs, bump, yes]
    client,    \* whether the global API client c has been built
    world,     \* what the hosting API holds: the organization's repositories and refs
    input,     \* gh-tag-creator: the lines read from stdin
    repos,     \* the []repo slice the program builds
    idx,       \* loop index of the running loop
    calls,     \* every remote call issued so far, in order
    stdout,    \* the bytes written to standard output by the fetcher
    answers,   \* what the user answered to each prompt, in order
    version,   \* bumpVersion: argument
    kind,      \* bumpVersion: bump kind
    result,    \* bumpVersion / fetchLatestTag: returned value
    refs       \* fetchLatestTag: the tag refs returned by ListMatchingRefs

vars == <<pc, exit, env, flags, client, world, input, repos, idx, calls, stdout,
          answers, version, kind, result, refs>>

pureVars == <<version, kind, result, refs>>

(***************************************************************************)
(* Bounds of the model.                                                    *)
(***************************************************************************)
MaxNum == 3      \* version components of bumpVersion's argument range over 0..MaxNum
MaxRefs == 3     \* tag refs of one repository in the selection specification
MaxRepos == 2    \* repositories in an organization listing
MaxLines == 2    \* input lines of gh-tag-creator

(***************************************************************************)
(* Characters and strings.                                                 *)
(***************************************************************************)
Digits == <<"0", "1", "2", "3", "4", "5", "6", "7", "8", "9">>
Upper == <<"A", "B", "C", "D", "E", "F", "G", "H", "I", "J", "K", "L", "M",
           "N", "O", "P", "Q", "R", "S", "T", "U", "V", "W", "X", "Y", "Z">>
Lower == <<"a", "b", "c", "d", "e", "f", "g", "h", "i", "j", "k", "l", "m",
           "n", "o", "p", "q", "r", "s", "t", "u", "v", "w", "x", "y", "z">>

\* Byte order of the characters the version grammar allows ('-' < digits < upper < lower).
ByteOrder == <<"-">> \o Digits \o Upper \o Lower

Range(s) == {s[i] : i \in 1..Len(s)}
num == Range(Digits)
allowed == Range(ByteOrder)

Ord(c) == CHOOSE i \in 1..Len(ByteOrder) : ByteOrder[i] = c
DigitVal(c) == (CHOOSE i \in 1..Len(Digits) : Digits[i] = c) - 1

\* Go's string comparison s > o, byte by byte.
RECURSIVE StrGreater(_, _)
StrGreater(s, o) ==
    IF s = <<>> THEN FALSE
    ELSE IF o = <<>> THEN TRUE
    ELSE IF Head(s) = Head(o) THEN StrGreater(Tail(s), Tail(o))
    ELSE Ord(Head(s)) > Ord(Head(o))

containsOnly(s, set) == \A i \in 1..Len(s) : s[i] \in set

HasPrefix(s, p) == Len(s) >= Len(p) /\ SubSeq(s, 1, Len(p)) = p
TrimPrefix(s, p) == IF HasPrefix(s, p) THEN SubSeq(s, Len(p) + 1, Len(s)) ELSE s

\* Index of the first occurrence of character c in s, 0 if there is none.
IndexOf(s, c) ==
    IF \E i \in 1..Len(s) : s[i] = c
    THEN CHOOSE i \in 1..Len(s) : s[i] = c /\ \A j \in 1..(i - 1) : s[j] # c
    ELSE 0

\* strings.Split(s, sep) for a one-character separator.
RECURSIVE Split(_, _)
Split(s, sep) ==
    LET i == IndexOf(s, sep)
    IN  IF i = 0 THEN <<s>>
        ELSE <<SubSeq(s, 1, i - 1)>> \o Split(SubSeq(s, i + 1, Len(s)), sep)

\* strings.Join(parts, sep).
RECURSIVE Join(_, _)
Join(parts, sep) ==
    IF parts = <<>> THEN <<>>
    ELSE IF Len(parts) = 1 THEN parts[1]
    ELSE parts[1] \o sep \o Join(Tail(parts), sep)

\* strconv.ParseUint(s, 10, 64) of a non-empty digit string.
RECURSIVE ParseUint(_)
ParseUint(s) ==
    IF s = <<>> THEN 0
    ELSE ParseUint(SubSeq(s, 1, Len(s) - 1)) * 10 + DigitVal(s[Len(s)])

IsUint(s) == s # <<>> /\ containsOnly(s, num)

\* Decimal formatting of an unsigned integer (fmt %d).
RECURSIVE FormatUint(_)
FormatUint(n) ==
    IF n < 10 THEN <<Digits[n + 1]>>
    ELSE FormatUint(n \div 10) \o <<Digits[(n % 10) + 1]>>

(***************************************************************************)
(* Semantic versions (github.com/Masterminds/semver/v3 as used by the      *)
(* program).  A *semver.Version is either Nil or a record.                 *)
(***************************************************************************)
Nil == [isNil |-> TRUE]

Version(ma, mi, pa, pre, meta) ==
    [isNil |-> FALSE, major |-> ma, minor |-> mi, patch |-> pa, pre |-> pre, metadata |-> meta]

\* identifier(.identifier)* with identifiers in [0-9A-Za-z-]+
IsIdentList(s) ==
    \A p \in Range(Split(s, ".")) : p # <<>> /\ containsOnly(p, allowed)

\* validatePrerelease: a numeric identifier must not start with a zero.
validatePrerelease(p) ==
    \A e \in Range(Split(p, ".")) :
        IF containsOnly(e, num) THEN ~(Len(e) > 1 /\ e[1] = "0")
        ELSE containsOnly(e, allowed)

\* The pieces of a tag: optional v, core, optional -pre, optional +meta.
TagPieces(s) ==
    LET body == IF s # <<>> /\ s[1] = "v" THEN Tail(s) ELSE s
        plus == IndexOf(body, "+")
        front == IF plus = 0 THEN body ELSE SubSeq(body, 1, plus - 1)
        dash == IndexOf(front, "-")
    IN  [core |-> IF dash = 0 THEN front ELSE SubSeq(front, 1, dash - 1),
         hasPre |-> dash # 0,
         pre |-> IF dash = 0 THEN <<>> ELSE SubSeq(front, dash + 1, Len(front)),
         hasMeta |-> plus # 0,
         meta |-> IF plus = 0 THEN <<>> ELSE SubSeq(body, plus + 1, Len(body))]

\* Whether semver.NewVersion(s) returns a version (err == nil).
Parses(s) ==
    LET t == TagPieces(s)
        nums == Split(t.core, ".")
    IN  /\ Len(nums) \in 1..3
        /\ \A i \in 1..Len(nums) : IsUint(nums[i])
        /\ t.hasPre => (IsIdentList(t.pre) /\ validatePrerelease(t.pre))
        /\ t.hasMeta => IsIdentList(t.meta)

\* semver.NewVersion(s) where it parses: missing minor and patch are 0.
NewVersion(s) ==
    LET t == TagPieces(s)
        nums == Split(t.core, ".")
    IN  Version(ParseUint(nums[1]),
                IF Len(nums) >= 2 THEN ParseUint(nums[2]) ELSE 0,
                IF Len(nums) >= 3 THEN ParseUint(nums[3]) ELSE 0,
                t.pre, t.meta)

\* (Version).String(): MAJOR.MINOR.PATCH[-pre][+metadata]
String(v) ==
    FormatUint(v.major) \o <<".">> \o FormatUint(v.minor) \o <<".">> \o FormatUint(v.patch)
    \o (IF v.pre # <<>> THEN <<"-">> \o v.pre ELSE <<>>)
    \o (IF v.metadata # <<>> THEN <<"+">> \o v.metadata ELSE <<>>)

IncMajor(v) == Version(v.major + 1, 0, 0, <<>>, <<>>)

\* IncMinor that forgets to reset the patch number.
IncMinorKeepsPatch(v) == Version(v.major, v.minor + 1, v.patch, <<>>, <<>>)
IncMinor(v) == Version(v.major, v.minor + 1, 0, <<>>, <<>>)

\* IncPatch that carries the build metadata over.
IncPatchKeepsMetadata(v) ==
    IF v.pre # <<>> THEN Version(v.major, v.minor, v.patch, <<>>, v.metadata)
    ELSE Version(v.major, v.minor, v.patch + 1, <<>>, v.metadata)

\* A pre-release version is bumped to its own release: the patch number stays.
IncPatch(v) ==
    IF v.pre # <<>> THEN Version(v.major, v.minor, v.patch, <<>>, <<>>)
    ELSE Version(v.major, v.minor, v.patch + 1, <<>>, <<>>)

\* Components compared as strings of digits instead of numbers.
compareSegmentAsStrings(a, b) ==
    IF StrGreater(FormatUint(b), FormatUint(a)) THEN -1
    ELSE IF StrGreater(FormatUint(a), FormatUint(b)) THEN 1 ELSE 0

compareSegment(a, b) == IF a < b THEN -1 ELSE IF a > b THEN 1 ELSE 0

comparePrePart(s, o) ==
    IF s = o THEN 0
    ELSE IF s = <<>> THEN -1
    ELSE IF o = <<>> THEN 1
    ELSE IF ~IsUint(o) /\ ~IsUint(s) THEN (IF StrGreater(s, o) THEN 1 ELSE -1)
    ELSE IF ~IsUint(o) THEN -1
    ELSE IF ~IsUint(s) THEN 1
    ELSE IF ParseUint(s) > ParseUint(o) THEN 1 ELSE -1

RECURSIVE comparePreParts(_, _)
comparePreParts(sp, op) ==
    IF sp = <<>> /\ op = <<>> THEN 0
    ELSE LET d == comparePrePart(IF sp = <<>> THEN <<>> ELSE Head(sp),
                                 IF op = <<>> THEN <<>> ELSE Head(op))
         IN  IF d # 0 THEN d
             ELSE comparePreParts(IF sp = <<>> THEN <<>> ELSE Tail(sp),
                                  IF op = <<>> THEN <<>> ELSE Tail(op))

comparePrerelease(v, o) == comparePreParts(Split(v, "."), Split(o, "."))

\* (Version).Compare: -1, 0 or 1; build metadata takes no part.
Compare(v, o) ==
    IF compareSegment(v.major, o.major) # 0 THEN compareSegment(v.major, o.major)
    ELSE IF compareSegment(v.minor, o.minor) # 0 THEN compareSegment(v.minor, o.minor)
    ELSE IF compareSegment(v.patch, o.patch) # 0 THEN compareSegment(v.patch, o.patch)
    ELSE IF v.pre = <<>> /\ o.pre = <<>> THEN 0
    ELSE IF v.pre = <<>> THEN 1
    ELSE IF o.pre = <<>> THEN -1
    ELSE comparePrerelease(v.pre, o.pre)

\* ByVersion.Less
Less(a, b) == Compare(a, b) < 0

\* sort.Sort on fewer than 12 elements is an insertion sort: each element moves left
\* while it is less than its left neighbour.
RECURSIVE InsertLast(_)
InsertLast(s) ==
    LET n == Len(s)
    IN  IF n >= 2 /\ Less(s[n], s[n - 1])
        THEN InsertLast(SubSeq(s, 1, n - 2) \o <<s[n]>>) \o <<s[n - 1]>>
        ELSE s

RECURSIVE Sort(_)
Sort(s) ==
    IF Len(s) <= 1 THEN s
    ELSE InsertLast(Sort(SubSeq(s, 1, Len(s) - 1)) \o <<s[Len(s)]>>)

\* The loop of fetchLatestTag: strip refs/tags/, keep what parses, in order.
RECURSIVE ParsedTags(_)
ParsedTags(rs) ==
    IF rs = <<>> THEN <<>>
    ELSE LET name == TrimPrefix(Head(rs), <<"r", "e", "f", "s", "/", "t", "a", "g", "s", "/">>)
         IN  (IF Parses(name) THEN <<NewVersion(name)>> ELSE <<>>) \o ParsedTags(Tail(rs))

\* fetchLatestTag once ListMatchingRefs has returned rs.
fetchLatestTag(rs) ==
    LET tags == ParsedTags(rs)
    IN  IF Len(tags) = 0 THEN Nil ELSE Sort(tags)[Len(tags)]

BumpKinds == {"major", "minor", "patch"}

\* bumpVersion for a valid bump kind (any other kind panics, see the actions).
bumpVersion(v, bump) ==
    LET ver == IF v = Nil THEN NewVersion(<<"v", "0", ".", "0", ".", "0">>) ELSE v
    IN  CASE bump = "major" -> IncMajor(ver)
          [] bump = "minor" -> IncMinor(ver)
          [] bump = "patch" -> IncPatch(ver)

\* versionToString without the leading v.
versionToStringNoPrefix(v) == IF v = Nil THEN <<>> ELSE String(v)
versionToString(v) == IF v = Nil THEN <<>> ELSE <<"v">> \o String(v)

(***************************************************************************)
(* Input pools.                                                            *)
(***************************************************************************)
RefsTags == <<"r", "e", "f", "s", "/", "t", "a", "g", "s", "/">>

PrePool == {<<>>, <<"r", "c", "1">>}
MetaPool == {<<>>, <<"b", "1">>}

\* Arguments of bumpVersion: what fetchLatestTag can return.
BumpInputs ==
    {Nil} \cup {Version(a, b, c, p, m) :
                  a \in 0..MaxNum, b \in 0..MaxNum, c \in 0..MaxNum, p \in PrePool, m \in MetaPool}

\* Tag names found in repositories: versions, with and without the v, a
\* pre-release, build metadata, and names that are no versions.
TagPool ==
    { <<"v", "1", ".", "2", ".", "0">>,
      <<"v", "1", ".", "1", "0", ".", "0">>,
      <<"v", "1", ".", "9", ".", "0">>,
      <<"1", ".", "9", ".", "0">>,
      <<"v", "1", ".", "1", "0", ".", "0", "-", "r", "c", "1">>,
      <<"v", "1", ".", "1", "0", ".", "0", "+", "b", "1">>,
      <<"l", "a", "t", "e", "s", "t">>,
      <<"v", "1", ".", "x">> }

RefPool == {RefsTags \o t : t \in TagPool}

SeqsUpTo(S, n) == UNION {[1..k -> S] : k \in 0..n}

\* The variables of the three programs while a function is checked on its own.
Idle ==
    /\ env = [token |-> TRUE]
    /\ flags = [nargs |-> 1, bump |-> "minor", yes |-> FALSE]
    /\ client = FALSE
    /\ world = <<>>
    /\ input = <<>>
    /\ repos = <<>>
    /\ idx = 0
    /\ calls = <<>>
    /\ stdout = <<>>
    /\ answers = <<>>

(***************************************************************************)
(* bumpVersion on its own.                                                 *)
(***************************************************************************)
InitBump ==
    /\ Idle
    /\ pc = "bumpVersion"
    /\ exit = "running"
    /\ version \in BumpInputs
    /\ kind \in BumpKinds \cup {"foo"}
    /\ result = Nil
    /\ refs = <<>>

BumpVersion ==
    /\ pc = "bumpVersion"
    /\ pc' = "returned"
    /\ IF kind \in BumpKinds
       THEN result' = bumpVersion(version, kind) /\ exit' = "0"
       ELSE result' = result /\ exit' = "panic"
    /\ UNCHANGED <<env, flags, client, world, input, repos, idx, calls, stdout, answers,
                   version, kind, refs>>

NextBump == BumpVersion

SpecBump == InitBump /\ [][NextBump]_vars

(***************************************************************************)
(* fetchLatestTag on its own: the refs are what ListMatchingRefs returned. *)
(***************************************************************************)
InitSelect ==
    /\ Idle
    /\ pc = "fetchLatestTag"
    /\ exit = "running"
    /\ refs \in SeqsUpTo(RefPool, MaxRefs)
    /\ result = Nil
    /\ version = Nil
    /\ kind = "minor"

FetchLatestTag ==
    /\ pc = "fetchLatestTag"
    /\ pc' = "returned"
    /\ result' = fetchLatestTag(refs)
    /\ exit' = "0"
    /\ UNCHANGED <<env, flags, client, world, input, repos, idx, calls, stdout, answers,
                   version, kind, refs>>

NextSelect == FetchLatestTag

SpecSelect == InitSelect /\ [][NextSelect]_vars

(***************************************************************************)
(* Claims about bumpVersion.                                               *)
(***************************************************************************)
V123rc1 == Version(1, 2, 3, <<"r", "c", "1">>, <<>>)

Returned == pc = "returned" /\ exit = "0"

\* C1 as stated: for every input version, with or without pre-release or build
\* metadata, major gives (major+1, 0, 0), minor gives (major, minor+1, 0) and patch
\* gives (major, minor, patch+1).
C1_Original ==
    (Returned /\ version # Nil) =>
        /\ kind = "major" =>
             <<result.major, result.minor, result.patch>> = <<version.major + 1, 0, 0>>
        /\ kind = "minor" =>
             <<result.major, result.minor, result.patch>> = <<version.major, version.minor + 1, 0>>
        /\ kind = "patch" =>
             <<result.major, result.minor, result.patch>> =
                 <<version.major, version.minor, version.patch + 1>>

\* C1 amended: major gives (major+1, 0, 0) and minor gives (major, minor+1, 0) for
\* every input version; patch gives (major, minor, patch+1) when the input has no
\* pre-release, and (major, minor, patch) when it has one.
C1_BumpComponents ==
    (Returned /\ version # Nil) =>
        /\ kind = "major" =>
             <<result.major, result.minor, result.patch>> = <<version.major + 1, 0, 0>>
        /\ kind = "minor" =>
             <<result.major, result.minor, result.patch>> = <<version.major, version.minor + 1, 0>>
        /\ (kind = "patch" /\ version.pre = <<>>) =>
             <<result.major, result.minor, result.patch>> =
                 <<version.major, version.minor, version.patch + 1>>
        /\ (kind = "patch" /\ version.pre # <<>>) =>
             <<result.major, result.minor, result.patch>> =
                 <<version.major, version.minor, version.patch>>

\* bump(1.2.3-rc1, patch) has returned.
C1_Witness == Returned /\ version = V123rc1 /\ kind = "patch" /\ result.patch = 3

\* C2: for every input version (or none) and every bump kind in {major, minor,
\* patch}, the returned version has empty pre-release and empty build metadata, and
\* the proposed tag is v, MAJOR, ., MINOR, ., PATCH and nothing else.
C2_BumpClearsPreAndMeta ==
    Returned =>
        /\ result # Nil
        /\ result.pre = <<>>
        /\ result.metadata = <<>>
        /\ versionToString(result) =
             <<"v">> \o FormatUint(result.major) \o <<".">> \o FormatUint(result.minor)
                     \o <<".">> \o FormatUint(result.patch)

\* A version with pre-release and build metadata has been bumped.
C2_Witness ==
    Returned /\ version # Nil /\ version.pre # <<>> /\ version.metadata # <<>> /\ kind = "patch"

(***************************************************************************)
(* Claims about fetchLatestTag.                                            *)
(***************************************************************************)
TagNames == {TrimPrefix(refs[i], RefsTags) : i \in 1..Len(refs)}
ParsedSet == {NewVersion(t) : t \in {n \in TagNames : Parses(n)}}

\* Semantic-version precedence a >= b: numbers compare as numbers, a release is
\* above its pre-releases, build metadata takes no part.
AtLeast(a, b) ==
    \/ a.major > b.major
    \/ a.major = b.major /\ a.minor > b.minor
    \/ a.major = b.major /\ a.minor = b.minor /\ a.patch > b.patch
    \/ /\ a.major = b.major /\ a.minor = b.minor /\ a.patch = b.patch
       /\ \/ a.pre = <<>>
          \/ b.pre # <<>> /\ comparePrerelease(a.pre, b.pre) >= 0

\* C3: fetchLatestTag drops the tags that do not parse and returns a parsed tag
\* that is at least every parsed tag under semantic-version precedence; it returns
\* none exactly when no tag parses.
C3_LatestIsMaximum ==
    Returned =>
        /\ (result = Nil) <=> (ParsedSet = {})
        /\ result # Nil => (result \in ParsedSet /\ \A p \in ParsedSet : AtLeast(result, p))

V1_10_0 == Version(1, 10, 0, <<>>, <<>>)

\* {v1.2.0, v1.10.0, v1.9.0} together with a tag that is no version yields 1.10.0.
C3_Witness ==
    /\ Returned
    /\ refs = << RefsTags \o <<"v", "1", ".", "1", "0", ".", "0">>,
                 RefsTags \o <<"l", "a", "t", "e", "s", "t">>,
                 RefsTags \o <<"v", "1", ".", "9", ".", "0">> >>
    /\ result = V1_10_0

(***************************************************************************)
(* gh-tag-fetcher (src/gh-tag-fetcher.go, lines 1-259).                    *)
(***************************************************************************)
GithubCom == <<"g", "i", "t", "h", "u", "b", ".", "c", "o", "m", "/">>
NL == "\n"

\* args[0], the organization, and the names of its repositories in listing order.
OrgArg == <<"o">>
RepoNames == <<<<"a">>, <<"b">>, <<"c">>, <<"d">>>>
Branches == {<<"m", "a", "i", "n">>, <<"d", "e", "v">>}

Ref(t) == RefsTags \o t

\* Tag refs one repository may hold.
RefLists ==
    { <<>>,
      <<Ref(<<"v", "1", ".", "0", ".", "0">>), Ref(<<"v", "1", ".", "1", ".", "0">>)>>,
      <<Ref(<<"l", "a", "t", "e", "s", "t">>)>>,
      <<Ref(<<"v", "1", ".", "2", ".", "0">>), Ref(<<"v", "1", ".", "1", "0", ".", "0">>),
        Ref(<<"v", "1", ".", "9", ".", "0">>)>>,
      <<Ref(<<"v", "1", ".", "1", "0", ".", "0", "-", "r", "c", "1">>),
        Ref(<<"v", "1", ".", "9", ".", "0">>)>>,
      <<Ref(<<"v", "1", ".", "1", "0", ".", "0", "+", "b", "1">>)>> }

\* The organization as the hosting API holds it: repository i is named RepoNames[i].
Worlds(branches) ==
    UNION { {[i \in 1..n |-> [name |-> RepoNames[i], refs |-> f[i].refs, branch |-> f[i].branch]] :
               f \in [1..n -> [refs : RefLists, branch : branches]]} : n \in 0..MaxRepos }

\* (*github.Repository).GetFullName(): owner/name
FullName(org, name) == org \o <<"/">> \o name

\* A remote call: its arguments (arg, and sha for CreateRef), whether it succeeded
\* and what it returned (ret: the default branch for Get, the SHA for GetCommit).
Call(api, org, name, arg, sha, ok, ret) ==
    [api |-> api, org |-> org, name |-> name, arg |-> arg, sha |-> sha, ok |-> ok, ret |-> ret]

\* An error that is logged without ending the process.
FatalOnlyLogs == pc' = pc /\ exit' = exit

\* noError(err) with err != nil: log.Fatalf ends the process with status 1 where it stands.
Fatal == pc' = pc /\ exit' = "1"

InitFetcher ==
    /\ pc = "parseFlags"
    /\ exit = "running"
    /\ env \in [token : BOOLEAN]
    /\ flags \in [nargs : 0..2, bump : BumpKinds \cup {"foo"}, yes : {FALSE}]
    /\ client = FALSE
    /\ world \in Worlds({<<"m", "a", "i", "n">>})
    /\ input = <<>>
    /\ repos = <<>>
    /\ idx = 0
    /\ calls = <<>>
    /\ stdout = <<>>
    /\ answers = <<>>
    /\ version = Nil /\ kind = "minor" /\ result = Nil /\ refs = <<>>

\* What parseFlags accepts: one argument, a token, a known bump kind.
FetcherFlagsOk == flags.nargs = 1 /\ env.token /\ flags.bump \in BumpKinds

\* parseFlags without the check of the bump kind.
parseFlagsIgnoresBump ==
    /\ pc = "parseFlags" /\ exit = "running"
    /\ IF flags.nargs = 0 \/ flags.nargs > 1 \/ ~env.token
       THEN Fatal
       ELSE pc' = "newGithubClient" /\ exit' = exit
    /\ UNCHANGED <<env, flags, client, world, input, repos, idx, calls, stdout, answers>>
    /\ UNCHANGED pureVars

parseFlags ==
    /\ pc = "parseFlags" /\ exit = "running"
    /\ IF flags.nargs = 0 \/ flags.nargs > 1 \/ ~env.token \/ flags.bump \notin BumpKinds
       THEN Fatal
       ELSE pc' = "newGithubClient" /\ exit' = exit
    /\ UNCHANGED <<env, flags, client, world, input, repos, idx, calls, stdout, answers>>
    /\ UNCHANGED pureVars

newGithubClient ==
    /\ pc = "newGithubClient" /\ exit = "running"
    /\ client' = TRUE
    /\ pc' = "ListByOrg"
    /\ UNCHANGED <<exit, env, flags, world, input, repos, idx, calls, stdout, answers>>
    /\ UNCHANGED pureVars

\* fetchRepos up to its loop: the listing call, which may fail.
ListByOrg ==
    /\ pc = "ListByOrg" /\ exit = "running"
    /\ \E ok \in BOOLEAN :
         /\ calls' = Append(calls, Call("ListByOrg", OrgArg, <<>>, <<>>, <<>>, ok, <<>>))
         /\ IF ~ok THEN Fatal /\ idx' = idx
            ELSE /\ exit' = exit
                 /\ idx' = 1
                 /\ pc' = IF Len(world) = 0 THEN "printRepos" ELSE "fetchRepo"
    /\ UNCHANGED <<env, flags, client, world, input, repos, stdout, answers>>
    /\ UNCHANGED pureVars

\* One iteration of the loop of fetchRepos: fetchLatestTag, then bumpVersion.
fetchRepo ==
    /\ pc = "fetchRepo" /\ exit = "running"
    /\ \E ok \in BOOLEAN :
         /\ calls' = Append(calls, Call("ListMatchingRefs", OrgArg, world[idx].name,
                                        <<"t", "a", "g", "s", "/">>, <<>>, ok, <<>>))
         /\ IF ~ok THEN Fatal /\ UNCHANGED <<repos, idx>>
            ELSE IF flags.bump \notin BumpKinds
            THEN pc' = pc /\ exit' = "panic" /\ UNCHANGED <<repos, idx>>
            ELSE LET latest == fetchLatestTag(world[idx].refs)
                 IN  /\ repos' = Append(repos,
                                    [name |-> world[idx].name,
                                     fullName |-> FullName(OrgArg, world[idx].name),
                                     branch |-> world[idx].branch,
                                     latestTag |-> latest,
                                     newTag |-> bumpVersion(latest, flags.bump)])
                     /\ idx' = idx + 1
                     /\ exit' = exit
                     /\ pc' = IF idx = Len(world) THEN "printRepos" ELSE "fetchRepo"
    /\ UNCHANGED <<env, flags, client, world, input, stdout, answers>>
    /\ UNCHANGED pureVars

\* reposToStdOutput of the fetcher: one string per repository.
RECURSIVE reposToStdOutput(_)
reposToStdOutput(rs) ==
    IF rs = <<>> THEN <<>>
    ELSE <<GithubCom \o Head(rs).fullName \o <<" ">> \o versionToString(Head(rs).newTag)>>
         \o reposToStdOutput(Tail(rs))

\* fmt.Println(strings.Join(lines, "\n")): the joined lines and a newline.
Println(lines) == Join(lines, <<NL>>) \o <<NL>>

printRepos ==
    /\ pc = "printRepos" /\ exit = "running"
    /\ stdout' = stdout \o Println(reposToStdOutput(repos))
    /\ pc' = "done"
    /\ exit' = "0"
    /\ UNCHANGED <<env, flags, client, world, input, repos, idx, calls, answers>>
    /\ UNCHANGED pureVars

NextFetcher == parseFlags \/ newGithubClient \/ ListByOrg \/ fetchRepo \/ printRepos

SpecFetcher == InitFetcher /\ [][NextFetcher]_vars

(***************************************************************************)
(* Claims about gh-tag-fetcher.                                            *)
(***************************************************************************)
\* The parsed tags of a repository and one that is at least all of them.
ParsedOf(rs) ==
    {NewVersion(t) : t \in {n \in {TrimPrefix(rs[i], RefsTags) : i \in 1..Len(rs)} : Parses(n)}}

MaxParsed(rs) ==
    IF ParsedOf(rs) = {} THEN Version(0, 0, 0, <<>>, <<>>)
    ELSE CHOOSE m \in ParsedOf(rs) : \A p \in ParsedOf(rs) : AtLeast(m, p)

\* The line the fetcher owes a repository: github.com/<org>/<repo> vX.Y.Z
ExpectedLine(r) ==
    LET b == bumpVersion(MaxParsed(r.refs), flags.bump)
    IN  GithubCom \o OrgArg \o <<"/">> \o r.name \o <<" ", "v">> \o FormatUint(b.major)
        \o <<".">> \o FormatUint(b.minor) \o <<".">> \o FormatUint(b.patch) \o <<NL>>

RECURSIVE ExpectedLines(_)
ExpectedLines(w) == IF w = <<>> THEN <<>> ELSE ExpectedLine(Head(w)) \o ExpectedLines(Tail(w))

FetcherDone == pc = "done" /\ exit = "0"

\* C4 as stated: for every listing, the empty one included, standard output is
\* exactly one line per listed repository, in listing order.
C4_Original == FetcherDone => stdout = ExpectedLines(world)

\* C4 amended: for every non-empty listing standard output is exactly one line
\* github.com/<org>/<repo> vX.Y.Z per listed repository, in listing order, X.Y.Z
\* being the bump of the repository's maximum parseable tag (0.0.0 if it has none);
\* for the empty listing it is one empty line.
C4_OneLinePerRepo ==
    FetcherDone =>
        stdout = (IF world = <<>> THEN <<NL>> ELSE ExpectedLines(world))

\* {A: [v1.0.0, v1.1.0], B: []} with minor has printed A v1.2.0 and B v0.1.0.
C4_Witness ==
    /\ FetcherDone
    /\ flags.bump = "minor"
    /\ Len(world) = 2
    /\ world[1].refs = <<Ref(<<"v", "1", ".", "0", ".", "0">>), Ref(<<"v", "1", ".", "1", ".", "0">>)>>
    /\ world[2].refs = <<>>
    /\ stdout = GithubCom \o <<"o", "/", "a", " ", "v", "1", ".", "2", ".", "0", NL>>
                \o GithubCom \o <<"o", "/", "b", " ", "v", "0", ".", "1", ".", "0", NL>>

\* C7: with a bump kind other than patch, minor, major, with no or more than one
\* argument, or with GITHUB_TOKEN unset, the fetcher exits with an error before the
\* client is built and before any remote call; bumpVersion never panics.
C7_RejectedAtStartup ==
    /\ exit # "panic"
    /\ ~FetcherFlagsOk => (~client /\ calls = <<>> /\ repos = <<>> /\ stdout = <<>>)
    /\ ~FetcherFlagsOk => pc = "parseFlags"

\* An invalid bump kind, all else valid, has been rejected.
C7_Witness ==
    /\ flags.bump = "foo" /\ flags.nargs = 1 /\ env.token
    /\ pc = "parseFlags" /\ exit = "1"

(***************************************************************************)
(* gh-tag-creator (src/gh-tag-creator.go).                                 *)
(***************************************************************************)
\* Lines that may arrive on stdin: two well-formed ones (with and without the
\* github.com/ prefix), one token, three tokens, a repository reference of one part,
\* one of three parts, and the empty line.
LinePool ==
    { GithubCom \o <<"o", "/", "a", " ", "v", "1", ".", "2", ".", "0">>,
      <<"o", "/", "b", " ", "v", "0", ".", "1", ".", "0">>,
      <<"o", "/", "a">>,
      <<"o", "/", "a", " ", "v", "1", " ", "x">>,
      <<"a", " ", "v", "1", ".", "0", ".", "0">>,
      GithubCom \o <<"o", "/", "a", "/", "b", " ", "v", "1">>,
      <<>> }

SHAs == {<<"s", "1">>, <<"s", "2">>}

\* What the terminal gives to the one-byte read: a failure to open it, a failure to
\* read it, or a first byte.
TtyOutcomes == {"open error", "read error", "y", "Y", "n", "N", NL}

InitCreator ==
    /\ pc = "parseFlags"
    /\ exit = "running"
    /\ env \in [token : BOOLEAN]
    /\ flags \in [nargs : {0}, bump : {"minor"}, yes : BOOLEAN]
    /\ client = FALSE
    /\ world = <<>>
    /\ input \in SeqsUpTo(LinePool, MaxLines)
    /\ repos = <<>>
    /\ idx = 0
    /\ calls = <<>>
    /\ stdout = <<>>
    /\ answers = <<>>
    /\ version = Nil /\ kind = "minor" /\ result = Nil /\ refs = <<>>

creatorParseFlags ==
    /\ pc = "parseFlags" /\ exit = "running"
    /\ IF ~env.token THEN Fatal ELSE pc' = "main" /\ exit' = exit
    /\ UNCHANGED <<env, flags, client, world, input, repos, idx, calls, stdout, answers>>
    /\ UNCHANGED pureVars

\* main from the scanner loop to the construction of the client.
creatorReadInput ==
    /\ pc = "main" /\ exit = "running"
    /\ IF Len(input) = 0
       THEN Fatal /\ UNCHANGED <<client, idx>>
       ELSE client' = TRUE /\ idx' = 1 /\ pc' = "fetchRepos" /\ exit' = exit
    /\ UNCHANGED <<env, flags, world, input, repos, calls, stdout, answers>>
    /\ UNCHANGED pureVars

\* The loop of fetchRepos runs over the whole input.
FetchLoopEndsEarly(i) == i >= 1
FetchLoopEnds(i) == i = Len(input)

\* One iteration of the loop of fetchRepos: split the line, fetch the repository.
creatorFetchRepo ==
    /\ pc = "fetchRepos" /\ exit = "running"
    /\ LET line == input[idx]
           tokens == Split(line, " ")
           repoURL == TrimPrefix(tokens[1], GithubCom)
           parts == Split(repoURL, "/")
       IN  IF Len(tokens) < 2 \/ Len(tokens) > 2
           THEN Fatal /\ UNCHANGED <<repos, idx, calls>>
           ELSE IF Len(parts) < 2 \/ Len(parts) > 2
           THEN Fatal /\ UNCHANGED <<repos, idx, calls>>
           ELSE \E ok \in BOOLEAN, branch \in Branches :
                  /\ calls' = Append(calls, Call("Get", parts[1], parts[2], <<>>, <<>>, ok,
                                                 IF ok THEN branch ELSE <<>>))
                  /\ IF ~ok THEN Fatal /\ UNCHANGED <<repos, idx>>
                     ELSE /\ repos' = Append(repos,
                                        [owner |-> parts[1], name |-> parts[2],
                                         fullName |-> FullName(parts[1], parts[2]),
                                         branch |-> branch, tag |-> tokens[2]])
                          /\ exit' = exit
                          /\ idx' = IF FetchLoopEnds(idx) THEN 1 ELSE idx + 1
                          /\ pc' = IF ~FetchLoopEnds(idx) THEN "fetchRepos"
                                   ELSE IF flags.yes THEN "createTags" ELSE "confirm"
    /\ UNCHANGED <<env, flags, client, world, input, stdout, answers>>
    /\ UNCHANGED pureVars

\* reposToStdOutput of the creator.
RECURSIVE creatorReposToStdOutput(_)
creatorReposToStdOutput(rs) ==
    IF rs = <<>> THEN <<>>
    ELSE <<GithubCom \o Head(rs).fullName \o <<" ">> \o Head(rs).tag>>
         \o creatorReposToStdOutput(Tail(rs))

Prompt ==
    <<"D", "o", " ", "y", "o", "u", " ", "w", "a", "n", "t", " ", "t", "o", " ", "c", "r",
      "e", "a", "t", "e", " ", "t", "h", "e", " ", "t", "a", "g", "s", " ", "l", "i", "s",
      "t", "e", "d", " ", "a", "b", "o", "v", "e", "?", " ", "[", "Y", "/", "N", "]", ":", " ">>

\* The answer that lets the run go on.
AcceptsAnyButN(y) == y # "n"
Accepts(y) == y = "y" \/ y = "Y"

\* The confirmation of main: print the list, read one byte from /dev/tty.
creatorConfirm ==
    /\ pc = "confirm" /\ exit = "running"
    /\ stdout' = stdout \o <<NL>> \o Println(creatorReposToStdOutput(repos)) \o <<NL>> \o Prompt
    /\ \E y \in TtyOutcomes :
         /\ answers' = Append(answers, y)
         /\ IF y = "open error" \/ y = "read error" THEN Fatal
            ELSE IF ~Accepts(y) THEN Fatal
            ELSE pc' = "createTags" /\ exit' = exit
    /\ UNCHANGED <<env, flags, client, world, input, repos, idx, calls>>
    /\ UNCHANGED pureVars

\* The name of the ref created for a tag.
TagRefMisspelt(tag) == <<"r", "e", "f", "/", "t", "a", "g", "s", "/">> \o tag
TagRef(tag) == RefsTags \o tag

\* One iteration of the loop of createTags: the head commit of the default branch,
\* then the ref.
creatorCreateTag ==
    /\ pc = "createTags" /\ exit = "running"
    /\ LET r == repos[idx]
       IN  \E commitOk \in BOOLEAN, sha \in SHAs, refOk \in BOOLEAN :
             LET getCommit == Call("GetCommit", r.owner, r.name, r.branch, <<>>, commitOk,
                                   IF commitOk THEN sha ELSE <<>>)
                 createRef == Call("CreateRef", r.owner, r.name, TagRef(r.tag), sha, refOk, <<>>)
             IN  IF ~commitOk
                 THEN calls' = Append(calls, getCommit) /\ Fatal /\ idx' = idx
                 ELSE /\ calls' = calls \o <<getCommit, createRef>>
                      /\ IF ~refOk THEN Fatal /\ idx' = idx
                         ELSE /\ idx' = idx + 1
                              /\ IF idx = Len(repos)
                                 THEN pc' = "done" /\ exit' = "0"
                                 ELSE pc' = pc /\ exit' = exit
    /\ UNCHANGED <<env, flags, client, world, input, repos, stdout, answers>>
    /\ UNCHANGED pureVars

NextCreator ==
    creatorParseFlags \/ creatorReadInput \/ creatorFetchRepo \/ creatorConfirm \/ creatorCreateTag

SpecCreator == InitCreator /\ [][NextCreator]_vars

(***************************************************************************)
(* Claims about gh-tag-creator.                                            *)
(***************************************************************************)
CallsOf(api) == SelectSeq(calls, LAMBDA c : c.api = api)
Creates == CallsOf("CreateRef")

\* The two tokens of a line and the two parts of its repository reference.
Tokens(line) == Split(line, " ")
RepoParts(line) == Split(TrimPrefix(Tokens(line)[1], GithubCom), "/")
WellFormed(line) == Len(Tokens(line)) = 2 /\ Len(RepoParts(line)) = 2

\* Position in calls of the i-th call of an API.
PosOf(api, i) ==
    CHOOSE k \in 1..Len(calls) :
        calls[k].api = api /\ Cardinality({j \in 1..k : calls[j].api = api}) = i

\* C5: in a run without error that was confirmed (or had -yes), there is exactly one
\* ref-creation call per input line, in input order, creating refs/tags/<second
\* token> in the repository named by the first token, at the SHA returned by the
\* fetch of the head commit of its default branch made immediately before.
C5_OneCreateRefPerLine ==
    (pc = "done" /\ exit = "0") =>
        /\ Len(Creates) = Len(input)
        /\ \A i \in 1..Len(input) :
             LET k == PosOf("CreateRef", i)
             IN  /\ calls[k].arg = RefsTags \o Tokens(input[i])[2]
                 /\ calls[k].org = RepoParts(input[i])[1]
                 /\ calls[k].name = RepoParts(input[i])[2]
                 /\ k > 1
                 /\ calls[k - 1].api = "GetCommit"
                 /\ calls[k - 1].org = calls[k].org /\ calls[k - 1].name = calls[k].name
                 /\ calls[k - 1].arg = CallsOf("Get")[i].ret
                 /\ calls[k - 1].ok
                 /\ calls[k].sha = calls[k - 1].ret

\* Two lines, tagged in order at two different commits.
C5_Witness ==
    /\ pc = "done" /\ exit = "0"
    /\ Len(input) = 2 /\ input[1] # input[2]
    /\ Len(Creates) = 2 /\ Creates[1].sha # Creates[2].sha

\* The last call failed.
LastFailed(api) == calls # <<>> /\ calls[Len(calls)].api = api /\ ~calls[Len(calls)].ok

\* C6 as stated: the first error ends the process with a non-zero status and no
\* further remote call; a failure while line k is handled means no ref-creation
\* call for line k or any later line.
C6_Original ==
    exit = "1" =>
        /\ \A i \in 1..(Len(calls) - 1) : calls[i].ok
        /\ pc = "createTags" => Len(Creates) <= idx - 1
        /\ pc # "createTags" => Creates = <<>>

\* C6 amended: the first error ends the process with a non-zero status and no
\* further remote call, and no call is retried; a failure while line k is handled
\* means no ref-creation call for any later line, and none for line k unless the
\* failing step is the ref-creation call of line k itself.
C6_FailFast ==
    /\ \A i \in 1..(Len(calls) - 1) : calls[i].ok
    /\ exit = "1" =>
        /\ pc = "createTags" =>
             Len(Creates) = (IF LastFailed("CreateRef") THEN idx ELSE idx - 1)
        /\ pc # "createTags" => Creates = <<>>
        /\ pc = "fetchRepos" =>
             Len(CallsOf("Get")) = (IF LastFailed("Get") THEN idx ELSE idx - 1)
    /\ Len(CallsOf("Get")) <= Len(input)
    /\ Len(CallsOf("GetCommit")) <= Len(input)
    /\ Len(Creates) <= Len(input)
    /\ \A i \in 1..Len(Creates) : Creates[i].arg = RefsTags \o Tokens(input[i])[2]

\* The head commit of line 2 could not be fetched: one ref created, for line 1.
C6_Witness ==
    /\ exit = "1" /\ pc = "createTags" /\ idx = 2
    /\ LastFailed("GetCommit")
    /\ Len(Creates) = 1

\* C8: without -yes no ref-creation call is issued unless the first byte read from
\* the terminal is y or Y; any other answer, or a failure to open or read the
\* terminal, ends the run with a non-zero status and no tag created; with -yes
\* there is no prompt and creation proceeds.
C8_ConfirmationGuardsCreation ==
    /\ (~flags.yes /\ CallsOf("GetCommit") # <<>>) => answers \in {<<"y">>, <<"Y">>}
    /\ (~flags.yes /\ answers # <<>> /\ answers \notin {<<"y">>, <<"Y">>}) =>
           (exit = "1" /\ Creates = <<>> /\ CallsOf("GetCommit") = <<>>)
    /\ flags.yes => (answers = <<>> /\ pc # "confirm" /\ stdout = <<>>)
    /\ Len(answers) <= 1

\* Without -yes, the answer Y was given and a ref has been created.
C8_Witness == ~flags.yes /\ answers = <<"Y">> /\ Creates # <<>>

\* C9: every line is split into exactly two tokens and two repository parts, and
\* every repository is fetched, before the first ref-creation call; a malformed
\* line or a repository that cannot be fetched, at any position, or an empty
\* input, means no ref-creation call.
C9_ValidateBeforeCreate ==
    /\ (CallsOf("GetCommit") # <<>> \/ Creates # <<>>) =>
         /\ input # <<>>
         /\ \A i \in 1..Len(input) :
              /\ WellFormed(input[i])
              /\ calls[i].api = "Get" /\ calls[i].ok
              /\ calls[i].org = RepoParts(input[i])[1]
              /\ calls[i].name = RepoParts(input[i])[2]
    /\ (\E i \in 1..Len(input) : ~WellFormed(input[i])) => Creates = <<>>
    /\ (\E i \in 1..Len(calls) : calls[i].api = "Get" /\ ~calls[i].ok) => Creates = <<>>
    /\ (input = <<>> /\ pc # "parseFlags") => (calls = <<>> /\ (pc = "main" => exit # "0"))

\* A well-formed first line was fetched, the second line is malformed: the run
\* has ended with one remote call and nothing created.
C9_Witness ==
    /\ Len(input) = 2 /\ WellFormed(input[1]) /\ ~WellFormed(input[2])
    /\ exit = "1" /\ Len(calls) = 1 /\ calls[1].ok

(***************************************************************************)
(* The interactive tagger (src/gh-tag-fetcher.go, lines 261-525).          *)
(***************************************************************************)
\* The constants org, bump and DoIt of the program.
TaggerOrg == <<"c", "o", "n", "d", "u", "i", "t", "i", "o">>
TaggerBump == "minor"
DoIt == "DO IT"

InitTagger ==
    /\ pc = "main"
    /\ exit = "running"
    /\ env \in [token : BOOLEAN]
    /\ flags = [nargs |-> 0, bump |-> TaggerBump, yes |-> FALSE]
    /\ client = FALSE
    /\ world \in Worlds(Branches)
    /\ input = <<>>
    /\ repos = <<>>
    /\ idx = 0
    /\ calls = <<>>
    /\ stdout = <<>>
    /\ answers = <<>>
    /\ version = Nil /\ kind = "minor" /\ result = Nil /\ refs = <<>>

\* main up to fetchRepos: the token, then the client.
taggerMain ==
    /\ pc = "main" /\ exit = "running"
    /\ IF ~env.token
       THEN Fatal /\ client' = client
       ELSE client' = TRUE /\ pc' = "ListByOrg" /\ exit' = exit
    /\ UNCHANGED <<env, flags, world, input, repos, idx, calls, stdout, answers>>
    /\ UNCHANGED pureVars

taggerListByOrg ==
    /\ pc = "ListByOrg" /\ exit = "running"
    /\ \E ok \in BOOLEAN :
         /\ calls' = Append(calls, Call("ListByOrg", TaggerOrg, <<>>, <<>>, <<>>, ok, <<>>))
         /\ IF ~ok THEN Fatal /\ idx' = idx
            ELSE /\ exit' = exit
                 /\ idx' = 1
                 /\ pc' = IF Len(world) = 0 THEN "filter" ELSE "fetchRepo"
    /\ UNCHANGED <<env, flags, client, world, input, repos, stdout, answers>>
    /\ UNCHANGED pureVars

taggerFetchRepo ==
    /\ pc = "fetchRepo" /\ exit = "running"
    /\ \E ok \in BOOLEAN :
         /\ calls' = Append(calls, Call("ListMatchingRefs", TaggerOrg, world[idx].name,
                                        <<"t", "a", "g", "s", "/">>, <<>>, ok, <<>>))
         /\ IF ~ok THEN Fatal /\ UNCHANGED <<repos, idx>>
            ELSE LET latest == fetchLatestTag(world[idx].refs)
                 IN  /\ repos' = Append(repos,
                                    [name |-> world[idx].name,
                                     fullName |-> FullName(TaggerOrg, world[idx].name),
                                     branch |-> world[idx].branch,
                                     latestTag |-> latest,
                                     newTag |-> bumpVersion(latest, TaggerBump)])
                     /\ idx' = idx + 1
                     /\ exit' = exit
                     /\ pc' = IF idx = Len(world) THEN "filter" ELSE "fetchRepo"
    /\ UNCHANGED <<env, flags, client, world, input, stdout, answers>>
    /\ UNCHANGED pureVars

\* buildOptions: one option per repository, made of its name and its two tags
\* (the padding of the columns is left out; names are unique in an organization).
buildOptions(rs) ==
    [i \in 1..Len(rs) |->
        rs[i].name \o <<" ", "(">>
        \o (IF rs[i].latestTag = Nil THEN <<"_">> ELSE <<"v">> \o String(rs[i].latestTag))
        \o <<" ", "-", ">", " ", "v">> \o String(rs[i].newTag) \o <<")">>]

\* The repositories whose option is among the selected ones, in listing order.
RECURSIVE Filtered(_, _, _)
Filtered(rs, opts, selected) ==
    IF rs = <<>> THEN <<>>
    ELSE (IF Head(opts) \in selected THEN <<Head(rs)>> ELSE <<>>)
         \o Filtered(Tail(rs), Tail(opts), selected)

\* filter, and the check of main that something is selected.
taggerFilter ==
    /\ pc = "filter" /\ exit = "running"
    /\ \E ok \in BOOLEAN, selected \in SUBSET Range(buildOptions(repos)) :
         IF ~ok THEN Fatal /\ UNCHANGED <<repos, idx>>
         ELSE /\ repos' = Filtered(repos, buildOptions(repos), selected)
              /\ idx' = 1
              /\ IF Len(repos') = 0 THEN Fatal ELSE pc' = "confirm" /\ exit' = exit
    /\ UNCHANGED <<env, flags, client, world, input, calls, stdout, answers>>
    /\ UNCHANGED pureVars

\* confirm: the user must type DoIt.
taggerConfirm ==
    /\ pc = "confirm" /\ exit = "running"
    /\ \E text \in {DoIt, "do it", "error"} :
         IF text # DoIt THEN Fatal ELSE pc' = "createTags" /\ exit' = exit
    /\ UNCHANGED <<env, flags, client, world, input, repos, idx, calls, stdout, answers>>
    /\ UNCHANGED pureVars

\* One iteration of the loop of createTags: the head commit, the confirmation,
\* the ref.  A declined confirmation prints Skip and the iteration goes on.
taggerCreateTag ==
    /\ pc = "createTags" /\ exit = "running"
    /\ LET r == repos[idx]
       IN  \E commitOk \in BOOLEAN, sha \in SHAs, confirm \in {"yes", "no", "error"},
              refOk \in BOOLEAN :
             LET getCommit == Call("GetCommit", TaggerOrg, r.name, r.branch, <<>>, commitOk,
                                   IF commitOk THEN sha ELSE <<>>)
                 createRef == Call("CreateRef", TaggerOrg, r.name,
                                   <<"r", "e", "f", "/", "t", "a", "g", "s", "/", "v">>
                                       \o String(r.newTag),
                                   sha, refOk, <<>>)
             IN  IF ~commitOk
                 THEN calls' = Append(calls, getCommit) /\ Fatal /\ UNCHANGED <<idx, answers>>
                 ELSE /\ answers' = Append(answers, [name |-> r.name, confirm |-> confirm])
                      /\ IF confirm = "error"
                         THEN calls' = Append(calls, getCommit) /\ Fatal /\ idx' = idx
                         ELSE /\ calls' = calls \o <<getCommit, createRef>>
                              /\ IF ~refOk THEN Fatal /\ idx' = idx
                                 ELSE /\ idx' = idx + 1
                                      /\ IF idx = Len(repos)
                                         THEN pc' = "done" /\ exit' = "0"
                                         ELSE pc' = pc /\ exit' = exit
    /\ UNCHANGED <<env, flags, client, world, input, repos, stdout>>
    /\ UNCHANGED pureVars

NextTagger ==
    taggerMain \/ taggerListByOrg \/ taggerFetchRepo \/ taggerFilter \/ taggerConfirm
    \/ taggerCreateTag

SpecTagger == InitTagger /\ [][NextTagger]_vars

(***************************************************************************)
(* Claim about the interactive tagger.                                     *)
(***************************************************************************)
\* C10: a repository whose confirmation was declined is skipped: no ref-creation
\* call is issued for it; a ref is created only for repositories whose
\* confirmation was accepted.
C10_DeclinedIsSkipped ==
    \A k \in 1..Len(calls) :
        calls[k].api = "CreateRef" =>
            \E a \in 1..Len(answers) :
                answers[a].name = calls[k].name /\ answers[a].confirm = "yes"

====
